---- MODULE Spec2Model ----
(***************************************************************************)
(* Model of bialystok_temp_Version2_1.py (and of bialystok_temp.py, whose  *)
(* parsing and selection functions are the same text): the tolerant        *)
(* date/time parser, the record selector, the serial encoder and the       *)
(* polling driver.                                                         *)
(*                                                                         *)
(* Representation.  A Python str is a sequence of one-character strings.   *)
(* A JSON value is a record [t, n, s]: t is the type tag ("absent" for a   *)
(* key the dict does not hold, "null", "int", "float", "str"), n the       *)
(* number (an int as itself, a float in tenths), s the characters.  An     *)
(* Optional[datetime] and an Optional[float] are records with an ok flag;  *)
(* a float is held in tenths.                                              *)
(***************************************************************************)
EXTENDS Integers, Sequences, FiniteSets, TLC

(***************************************************************************)
(* Characters and strings                                                  *)
(***************************************************************************)
DigitChars == <<"0", "1", "2", "3", "4", "5", "6", "7", "8", "9">>

IsDigit(c) == \E i \in 1..10 : DigitChars[i] = c

DigitVal(c) == (CHOOSE i \in 1..10 : DigitChars[i] = c) - 1

IsSpace(c) == c = " "

At(s, i) == IF i >= 1 /\ i <= Len(s) THEN s[i] ELSE ""

Abs(n) == IF n < 0 THEN -n ELSE n

RECURSIVE NatStr(_)
NatStr(n) == IF n < 10 THEN <<DigitChars[n + 1]>>
             ELSE NatStr(n \div 10) \o <<DigitChars[(n % 10) + 1]>>

RECURSIVE Repeat(_, _)
Repeat(c, k) == IF k <= 0 THEN <<>> ELSE <<c>> \o Repeat(c, k - 1)

\* str(n) of a Python int
IntStr(n) == IF n < 0 THEN <<"-">> \o NatStr(-n) ELSE NatStr(n)

\* f"{n:02d}": sign first, then zeros up to the width of 2
ZeroPad(sign, body, width) == sign \o Repeat("0", width - Len(sign) - Len(body)) \o body

Fmt02d(n) == ZeroPad(IF n < 0 THEN <<"-">> ELSE <<>>, NatStr(Abs(n)), 2)

\* s[:k]
Take(s, k) == IF Len(s) <= k THEN s ELSE SubSeq(s, 1, k)

\* s.ljust(k)
Ljust(s, k) == s \o Repeat(" ", k - Len(s))

\* s.replace(a, b) for one-character a and b
Replace(s, a, b) == [i \in 1..Len(s) |-> IF s[i] = a THEN b ELSE s[i]]

(***************************************************************************)
(* datetime                                                                *)
(***************************************************************************)
NoDT == [ok |-> FALSE, y |-> 0, mo |-> 0, d |-> 0, h |-> 0, mi |-> 0, s |-> 0,
         aware |-> FALSE, off |-> 0]

DT(y, mo, d, h, mi, s) ==
    [ok |-> TRUE, y |-> y, mo |-> mo, d |-> d, h |-> h, mi |-> mi, s |-> s,
     aware |-> FALSE, off |-> 0]

IsLeap(y) == (y % 4 = 0 /\ y % 100 # 0) \/ y % 400 = 0

DaysInMonth(y, mo) ==
    IF mo = 2 THEN (IF IsLeap(y) THEN 29 ELSE 28)
    ELSE IF mo \in {4, 6, 9, 11} THEN 30 ELSE 31

\* datetime(...) raises ValueError outside these ranges
ValidFields(f) ==
    /\ f.y >= 1 /\ f.mo \in 1..12
    /\ f.d >= 1 /\ f.d <= DaysInMonth(f.y, f.mo)
    /\ f.h \in 0..23 /\ f.mi \in 0..59 /\ f.s \in 0..59

\* date.toordinal(): the days from 0001-01-01, that day being 1
RECURSIVE DaysBeforeMonth(_, _)
DaysBeforeMonth(y, mo) ==
    IF mo <= 1 THEN 0 ELSE DaysBeforeMonth(y, mo - 1) + DaysInMonth(y, mo - 1)

DaysBeforeYear(y) == (y - 1) * 365 + (y - 1) \div 4 - (y - 1) \div 100 + (y - 1) \div 400

Ordinal(x) == DaysBeforeYear(x.y) + DaysBeforeMonth(x.y, x.mo) + x.d

\* The minutes of x since the start of its day, an aware x taken at UTC
UtcMinutes(x) == x.h * 60 + x.mi - x.off

\* (day, minute, second) of a before that of b
TripleLt(da, ma, sa, db, mb, sb) ==
    \/ da < db
    \/ da = db /\ ma < mb
    \/ da = db /\ ma = mb /\ sa < sb

\* a < b for two datetimes of the same awareness
DTLt(a, b) ==
    TripleLt(Ordinal(a) + UtcMinutes(a) \div 1440, UtcMinutes(a) % 1440, a.s,
             Ordinal(b) + UtcMinutes(b) \div 1440, UtcMinutes(b) % 1440, b.s)

(***************************************************************************)
(* datetime.strptime.  A format is a sequence of directives ("%Y", "%m",   *)
(* "%d", "%H", "%M", "%S") and literal characters; _strptime turns it into *)
(* a regular expression, a blank of the format into \s+, matches it at the *)
(* start of the string and rejects unconverted data after the match.       *)
(***************************************************************************)
NoField == [ok |-> FALSE, v |-> 0, n |-> 0]

\* The two-digit alternatives of a directive's regular expression
TwoDigitOK(dir, c1, c2) ==
    /\ IsDigit(c1) /\ IsDigit(c2)
    /\ CASE dir = "%m" -> (c1 = "1" /\ c2 \in {"0", "1", "2"}) \/ (c1 = "0" /\ c2 # "0")
         [] dir = "%d" -> (c1 = "3" /\ c2 \in {"0", "1"}) \/ c1 \in {"1", "2"}
                              \/ (c1 = "0" /\ c2 # "0")
         [] dir = "%H" -> (c1 = "2" /\ c2 \in {"0", "1", "2", "3"}) \/ c1 \in {"0", "1"}
         [] dir = "%M" -> DigitVal(c1) <= 5
         [] dir = "%S" -> (c1 = "6" /\ c2 \in {"0", "1"}) \/ DigitVal(c1) <= 5
         [] OTHER -> FALSE

\* The one-digit alternative
OneDigitOK(dir, c1) ==
    /\ IsDigit(c1)
    /\ (dir \in {"%m", "%d"} => c1 # "0")

\* One directive matched at position i, c1 and c2 the characters there: the
\* first alternative that matches
TakeFieldAt(s, i, dir, c1, c2) ==
    IF dir = "%Y"
    THEN IF \A k \in 0..3 : IsDigit(At(s, i + k))
         THEN [ok |-> TRUE,
               v |-> DigitVal(At(s, i)) * 1000 + DigitVal(At(s, i + 1)) * 100
                     + DigitVal(At(s, i + 2)) * 10 + DigitVal(At(s, i + 3)),
               n |-> i + 4]
         ELSE NoField
    ELSE IF TwoDigitOK(dir, c1, c2)
    THEN [ok |-> TRUE, v |-> DigitVal(c1) * 10 + DigitVal(c2), n |-> i + 2]
    ELSE IF OneDigitOK(dir, c1)
    THEN [ok |-> TRUE, v |-> DigitVal(c1), n |-> i + 1]
    ELSE IF dir = "%d" /\ c1 = " " /\ IsDigit(c2) /\ c2 # "0"
    THEN [ok |-> TRUE, v |-> DigitVal(c2), n |-> i + 2]
    ELSE NoField

TakeField(s, i, dir) == TakeFieldAt(s, i, dir, At(s, i), At(s, i + 1))

IsDirective(tok) == tok \in {"%Y", "%m", "%d", "%H", "%M", "%S"}

SetField(acc, dir, v) ==
    CASE dir = "%Y" -> [acc EXCEPT !.y = v]
      [] dir = "%m" -> [acc EXCEPT !.mo = v]
      [] dir = "%d" -> [acc EXCEPT !.d = v]
      [] dir = "%H" -> [acc EXCEPT !.h = v]
      [] dir = "%M" -> [acc EXCEPT !.mi = v]
      [] OTHER      -> [acc EXCEPT !.s = v]

RECURSIVE SkipSpaces(_, _)
SkipSpaces(s, i) == IF IsSpace(At(s, i)) THEN SkipSpaces(s, i + 1) ELSE i

NoMatch == [ok |-> FALSE, n |-> 0, f |-> NoDT]

\* The regular expression matched from position i of s and token j of fmt;
\* MatchField goes on after the directive fmt[j] that read r
RECURSIVE MatchFrom(_, _, _, _, _), MatchField(_, _, _, _, _)
MatchField(s, r, fmt, j, acc) ==
    IF r.ok THEN MatchFrom(s, r.n, fmt, j + 1, SetField(acc, fmt[j], r.v)) ELSE NoMatch

MatchFrom(s, i, fmt, j, acc) ==
    IF j > Len(fmt) THEN [ok |-> TRUE, n |-> i, f |-> acc]
    ELSE IF IsDirective(fmt[j]) THEN MatchField(s, TakeField(s, i, fmt[j]), fmt, j, acc)
    ELSE IF fmt[j] = " "
    THEN (IF IsSpace(At(s, i)) THEN MatchFrom(s, SkipSpaces(s, i), fmt, j + 1, acc)
          ELSE NoMatch)
    ELSE IF At(s, i) = fmt[j] THEN MatchFrom(s, i + 1, fmt, j + 1, acc)
    ELSE NoMatch

\* What strptime makes of the match m: unconverted data and a date that does
\* not exist are a ValueError, NoDT here
StrptimeResult(s, m) ==
    IF m.ok /\ m.n = Len(s) + 1 /\ ValidFields(m.f) THEN m.f ELSE NoDT

\* datetime.strptime(s, fmt)
strptime(s, fmt) == StrptimeResult(s, MatchFrom(s, 1, fmt, 1, DT(1900, 1, 1, 0, 0, 0)))

(***************************************************************************)
(* datetime.fromisoformat, the grammar every Python 3 release accepts:     *)
(* YYYY-MM-DD[*HH[:MM[:SS]][+HH:MM]], each number of its full width and *  *)
(* any one character.  An offset makes the datetime aware.                 *)
(***************************************************************************)
TwoDigits(s, i) == IsDigit(At(s, i)) /\ IsDigit(At(s, i + 1))

Num2(s, i) == DigitVal(At(s, i)) * 10 + DigitVal(At(s, i + 1))

IsoDateOK(s) ==
    /\ Len(s) >= 10
    /\ \A k \in 1..4 : IsDigit(s[k])
    /\ s[5] = "-" /\ TwoDigits(s, 6) /\ s[8] = "-" /\ TwoDigits(s, 9)

\* The length of the time part that starts at position 12, 0 if malformed
IsoTimeLen(s) ==
    IF ~TwoDigits(s, 12) THEN 0
    ELSE IF ~(At(s, 14) = ":" /\ TwoDigits(s, 15)) THEN 2
    ELSE IF ~(At(s, 17) = ":" /\ TwoDigits(s, 18)) THEN 5
    ELSE 8

\* The offset that starts at position e, applied to the naive datetime
IsoOffset(s, e, naive) ==
    IF /\ Len(s) = e + 5
       /\ s[e] \in {"+", "-"}
       /\ TwoDigits(s, e + 1) /\ s[e + 3] = ":" /\ TwoDigits(s, e + 4)
       /\ Num2(s, e + 1) <= 23 /\ Num2(s, e + 4) <= 59
    THEN [naive EXCEPT !.aware = TRUE,
                       !.off = (IF s[e] = "-" THEN -1 ELSE 1)
                               * (Num2(s, e + 1) * 60 + Num2(s, e + 4))]
    ELSE NoDT

\* The time part of length tl read, then the offset if the string goes on
IsoTime(s, tl, naive) ==
    IF tl = 0 \/ ~ValidFields(naive) THEN NoDT
    ELSE IF 12 + tl = Len(s) + 1 THEN naive
    ELSE IsoOffset(s, 12 + tl, naive)

IsoHour(s, tl, date) ==
    IsoTime(s, tl, [date EXCEPT !.h = IF tl >= 2 THEN Num2(s, 12) ELSE 0,
                                !.mi = IF tl >= 5 THEN Num2(s, 15) ELSE 0,
                                !.s = IF tl >= 8 THEN Num2(s, 18) ELSE 0])

IsoDate(s, date) ==
    IF Len(s) = 10 THEN (IF ValidFields(date) THEN date ELSE NoDT)
    ELSE IsoHour(s, IsoTimeLen(s), date)

fromisoformat(s) ==
    IF ~IsoDateOK(s) THEN NoDT
    ELSE IsoDate(s, DT(DigitVal(s[1]) * 1000 + DigitVal(s[2]) * 100
                       + DigitVal(s[3]) * 10 + DigitVal(s[4]),
                       Num2(s, 6), Num2(s, 9), 0, 0, 0))

\* The list fmts of try_parse_datetime, in its order
fmts ==
    << <<"%Y", "-", "%m", "-", "%d", "T", "%H", ":", "%M", ":", "%S">>,
       <<"%Y", "-", "%m", "-", "%d", " ", "%H", ":", "%M", ":", "%S">>,
       <<"%Y", "-", "%m", "-", "%d", " ", "%H", ":", "%M">>,
       <<"%Y", "-", "%m", "-", "%d", " ", "%H">>,
       <<"%Y", "-", "%m", "-", "%d">> >>

\* The loop over fmts from index k: the first format that parses
\* d if it is a datetime, else the alternative
OrElse(d, alt) == IF d.ok THEN d ELSE alt

RECURSIVE TryFormats(_, _)
TryFormats(s, k) ==
    IF k > Len(fmts) THEN fromisoformat(s)
    ELSE OrElse(strptime(s, fmts[k]), TryFormats(s, k + 1))

try_parse_datetime(date_str) ==
    IF Len(date_str) = 0 THEN NoDT ELSE TryFormats(date_str, 1)

(***************************************************************************)
(* JSON values and Python's conversions of them                            *)
(***************************************************************************)
Absent == [t |-> "absent", n |-> 0, s |-> <<>>]

Null == [t |-> "null", n |-> 0, s |-> <<>>]

JInt(n) == [t |-> "int", n |-> n, s |-> <<>>]

\* a float, given in tenths
JFloat(n) == [t |-> "float", n |-> n, s |-> <<>>]

JStr(s) == [t |-> "str", n |-> 0, s |-> s]

\* bool(v): None, 0, 0.0 and "" are false
Truthy(v) ==
    \/ v.t \in {"int", "float"} /\ v.n # 0
    \/ v.t = "str" /\ Len(v.s) > 0

\* a or b
PyOr(a, b) == IF Truthy(a) THEN a ELSE b

\* isinstance(v, (int, float))
IsNumber(v) == v.t \in {"int", "float"}

\* int(v) of a number: a float is cut towards zero
PyInt(v) ==
    IF v.t = "int" THEN v.n
    ELSE IF v.n >= 0 THEN v.n \div 10 ELSE -((-v.n) \div 10)

\* str(v), which is also what an f-string puts for {v}
PyStr(v) ==
    CASE v.t = "str"   -> v.s
      [] v.t = "int"   -> IntStr(v.n)
      [] v.t = "float" -> (IF v.n < 0 THEN <<"-">> ELSE <<>>)
                          \o NatStr(Abs(v.n) \div 10) \o <<".">> \o NatStr(Abs(v.n) % 10)
      [] OTHER         -> <<"N", "o", "n", "e">>

\* s.strip() of blanks, which float() does to a string first
RECURSIVE Strip(_)
Strip(s) ==
    IF Len(s) = 0 THEN s
    ELSE IF IsSpace(s[1]) THEN Strip(Tail(s))
    ELSE IF IsSpace(s[Len(s)]) THEN Strip(SubSeq(s, 1, Len(s) - 1))
    ELSE s

RECURSIVE DigitsVal(_)
DigitsVal(s) == IF Len(s) = 0 THEN 0
                ELSE DigitsVal(SubSeq(s, 1, Len(s) - 1)) * 10 + DigitVal(s[Len(s)])

NoFloat == [ok |-> FALSE, v |-> 0]

SomeFloat(v) == [ok |-> TRUE, v |-> v]

\* The number whose digits before the point are ip and after it fp
FloatOfParts(neg, ip, fp) ==
    IF /\ \A i \in 1..Len(ip) : IsDigit(ip[i])
       /\ \A i \in 1..Len(fp) : IsDigit(fp[i])
       /\ Len(fp) <= 1
       /\ Len(ip) + Len(fp) >= 1
    THEN SomeFloat((IF neg THEN -1 ELSE 1)
                   * (DigitsVal(ip) * 10 + (IF Len(fp) = 1 THEN DigitVal(fp[1]) ELSE 0)))
    ELSE NoFloat

\* The place of the first point of u, Len(u) + 1 if it has none
PointAt(u) ==
    IF \E i \in 1..Len(u) : u[i] = "."
    THEN CHOOSE i \in 1..Len(u) : u[i] = "." /\ \A j \in 1..(i - 1) : u[j] # "."
    ELSE Len(u) + 1

FloatOfUnsigned(neg, u, p) == FloatOfParts(neg, SubSeq(u, 1, p - 1), SubSeq(u, p + 1, Len(u)))

FloatOfStripped(s) ==
    IF At(s, 1) \in {"+", "-"}
    THEN FloatOfUnsigned(At(s, 1) = "-", Tail(s), PointAt(Tail(s)))
    ELSE FloatOfUnsigned(FALSE, s, PointAt(s))

\* float(s) of a string, in tenths: [sign] digits [. [digit]] or [sign] . digit.
\* The model's floats are tenths, so its strings hold at most one digit after
\* the point; NoFloat stands for the ValueError.
FloatOfStr(str) == FloatOfStripped(Strip(str))

\* float(v), NoFloat standing for the ValueError or TypeError
PyFloat(v) ==
    CASE v.t = "int"   -> SomeFloat(v.n * 10)
      [] v.t = "float" -> SomeFloat(v.n)
      [] v.t = "str"   -> FloatOfStr(v.s)
      [] OTHER         -> NoFloat

(***************************************************************************)
(* Records.  An element of the payload is [kind, f]: kind "dict" is a JSON *)
(* object, f its fields (Absent for a key it does not hold); kind "int" is *)
(* a JSON number and kind "str" a JSON string holding none of the key      *)
(* names, where an array of objects was expected.                          *)
(***************************************************************************)
Keys == {"data_pomiaru", "godzina_pomiaru", "godzina", "time", "timestamp", "date",
         "data", "temperatura", "temp", "temperature", "t", "stacja", "station"}

EmptyFields == [k \in Keys |-> Absent]

Dict(f) == [kind |-> "dict", f |-> f]

NonDict(kind) == [kind |-> kind, f |-> EmptyFields]

\* key in rec, for a dict and for a str (a substring test, false here); on an
\* int it raises TypeError, which the callers test with InRaises first
In(rec, key) == rec.kind = "dict" /\ rec.f[key].t # "absent"

InRaises(rec) == rec.kind = "int"

\* rec.get(key) of a dict
Get(rec, key) == IF rec.f[key].t = "absent" THEN Null ELSE rec.f[key]

\* The loop of record_datetime over its generic keys, from index i
generic_keys == <<"timestamp", "date", "data">>

RECURSIVE GenericLoop(_, _)
GenericLoop(rec, i) ==
    IF i > Len(generic_keys) THEN NoDT
    ELSE IF In(rec, generic_keys[i]) /\ Truthy(Get(rec, generic_keys[i]))
    THEN OrElse(try_parse_datetime(PyStr(Get(rec, generic_keys[i]))), GenericLoop(rec, i + 1))
    ELSE GenericLoop(rec, i + 1)

\* time_part after the isinstance branch: a number becomes "HH:00:00"
HourString(time_part) ==
    IF IsNumber(time_part)
    THEN JStr(Fmt02d(PyInt(time_part)) \o <<":", "0", "0", ":", "0", "0">>)
    ELSE time_part

\* time_part = rec.get('godzina_pomiaru') or rec.get('godzina') or rec.get('time')
TimePart(rec) ==
    HourString(PyOr(Get(rec, "godzina_pomiaru"), PyOr(Get(rec, "godzina"), Get(rec, "time"))))

\* try_parse_datetime(combined) if date_part and time_part
Combined(date_part, time_part) ==
    IF Truthy(date_part) /\ Truthy(time_part)
    THEN try_parse_datetime(PyStr(date_part) \o <<" ">> \o PyStr(time_part))
    ELSE NoDT

\* The branch of record_datetime for a record that holds data_pomiaru
DataPomiaru(rec, date_part) ==
    OrElse(Combined(date_part, TimePart(rec)),
           OrElse(try_parse_datetime(PyStr(date_part)), GenericLoop(rec, 1)))

\* record_datetime(rec): [exc, dt]
record_datetime(rec) ==
    IF InRaises(rec) THEN [exc |-> "TypeError", dt |-> NoDT]
    ELSE IF In(rec, "data_pomiaru")
    THEN [exc |-> "none", dt |-> DataPomiaru(rec, Get(rec, "data_pomiaru"))]
    ELSE [exc |-> "none", dt |-> GenericLoop(rec, 1)]

\* The list candidates of extract_temp, in its order
candidates == <<"temperatura", "temp", "temperature", "t">>

\* r if it is a number, else the alternative
OrElseFloat(r, alt) == IF r.ok THEN r ELSE alt

\* float(v) after v.replace(',', '.') of a str
Coerce(v) == PyFloat(IF v.t = "str" THEN JStr(Replace(v.s, ",", ".")) ELSE v)

\* The loop of extract_temp from index i
RECURSIVE CandidateLoop(_, _)
CandidateLoop(rec, i) ==
    IF i > Len(candidates) THEN NoFloat
    ELSE IF /\ In(rec, candidates[i])
            /\ rec.f[candidates[i]].t # "null"
            /\ rec.f[candidates[i]] # JStr(<<>>)
    THEN OrElseFloat(Coerce(rec.f[candidates[i]]), CandidateLoop(rec, i + 1))
    ELSE CandidateLoop(rec, i + 1)

\* extract_temp with return None where the loop has continue: the first
\* candidate that fails to coerce ends the search
RECURSIVE CandidateLoop_return(_, _)
CandidateLoop_return(rec, i) ==
    IF i > Len(candidates) THEN NoFloat
    ELSE IF /\ In(rec, candidates[i])
            /\ rec.f[candidates[i]].t # "null"
            /\ rec.f[candidates[i]] # JStr(<<>>)
    THEN Coerce(rec.f[candidates[i]])
    ELSE CandidateLoop_return(rec, i + 1)

extract_temp_return(rec) == CandidateLoop_return(rec, 1)

\* extract_temp(rec), reached only after record_datetime(rec) returned
extract_temp(rec) == CandidateLoop(rec, 1)

(***************************************************************************)
(* list.sort(key=..., reverse=True).  CPython reverses the list, sorts it  *)
(* ascending and stably, and reverses it again, so equal keys keep their   *)
(* order.  The key of an entry is the tuple (x[0] is None, x[0]).          *)
(***************************************************************************)
\* key(a) < key(b) for tuples (bool, datetime or None): the first elements
\* decide when they differ; (True, None) equals (True, None)
KeyLt(a, b) ==
    IF a.d.ok # b.d.ok THEN a.d.ok /\ ~b.d.ok
    ELSE IF ~a.d.ok THEN FALSE
    ELSE DTLt(a.d, b.d)

\* An aware and a naive datetime met by <: TypeError.  A comparison sort
\* compares every two neighbours of its result, so the sort raises exactly
\* when the list holds both kinds.
SortRaises(seq) ==
    \E i, j \in 1..Len(seq) :
        seq[i].d.ok /\ seq[j].d.ok /\ seq[i].d.aware # seq[j].d.aware

Reverse(seq) == [i \in 1..Len(seq) |-> seq[Len(seq) + 1 - i]]

\* x put into the ascending list after every entry that is not greater
RECURSIVE InsertAsc(_, _)
InsertAsc(sorted, x) ==
    IF Len(sorted) = 0 THEN <<x>>
    ELSE IF KeyLt(x, sorted[Len(sorted)])
    THEN InsertAsc(SubSeq(sorted, 1, Len(sorted) - 1), x) \o <<sorted[Len(sorted)]>>
    ELSE sorted \o <<x>>

RECURSIVE StableSortAsc(_)
StableSortAsc(seq) ==
    IF Len(seq) = 0 THEN <<>>
    ELSE InsertAsc(StableSortAsc(SubSeq(seq, 1, Len(seq) - 1)), seq[Len(seq)])

\* with_dt.sort(key=lambda x: (x[0] is None, x[0]), reverse=True)
SortWithDt(with_dt) == Reverse(StableSortAsc(Reverse(with_dt)))

(***************************************************************************)
(* fetch_latest_for_station.  The response is [kind, items]: kind "error"  *)
(* is requests.get or raise_for_status raising a RequestException, "list"  *)
(* and "dict" the decoded body, "other" any other JSON value.              *)
(***************************************************************************)
NoRec == NonDict("none")

Result(exc, temp, dt, rec) == [exc |-> exc, temp |-> temp, dt |-> dt, rec |-> rec]

\* records, after the isinstance tests
Records(resp) ==
    IF resp.kind \in {"list", "dict"} THEN resp.items ELSE <<>>

\* One entry of with_dt: (d, rec); pos is the identity of the record object,
\* its place in the input, and exc what record_datetime raised
Entry(r, rec, pos) == [d |-> r.dt, exc |-> r.exc, rec |-> rec, pos |-> pos]

\* with_dt before the sort, in input order
WithDt(records) ==
    [i \in 1..Len(records) |-> Entry(record_datetime(records[i]), records[i], i)]

\* What the scan returns at an entry whose temperature is temp
ScanStep(temp, entry, rest) ==
    IF temp.ok THEN Result("none", temp, entry.d, entry.rec) ELSE rest

\* The scan for the first entry with a temperature, from index i
RECURSIVE FirstWithTemp(_, _)
FirstWithTemp(with_dt, i) ==
    IF i > Len(with_dt)
    THEN Result("none", NoFloat, with_dt[1].d, with_dt[1].rec)
    ELSE ScanStep(extract_temp(with_dt[i].rec), with_dt[i], FirstWithTemp(with_dt, i + 1))

\* The function from the loop that fills with_dt on
SelectLatest(with_dt) ==
    IF \E i \in 1..Len(with_dt) : with_dt[i].exc # "none"
    THEN Result("TypeError", NoFloat, NoDT, NoRec)
    ELSE IF SortRaises(with_dt)
    THEN Result("TypeError", NoFloat, NoDT, NoRec)
    ELSE FirstWithTemp(SortWithDt(with_dt), 1)

fetch_latest_for_station(resp) ==
    IF resp.kind = "error" THEN Result("RequestException", NoFloat, NoDT, NoRec)
    ELSE IF Len(Records(resp)) = 0 THEN Result("none", NoFloat, NoDT, NoRec)
    ELSE SelectLatest(WithDt(Records(resp)))

(***************************************************************************)
(* format_serial_string                                                    *)
(***************************************************************************)
\* s.rjust(k)
Rjust(s, k) == Repeat(" ", k - Len(s)) \o s

\* f"{temp:5.1f}" of a float given in tenths
Fmt51f(temp) ==
    Rjust((IF temp < 0 THEN <<"-">> ELSE <<>>)
          \o NatStr(Abs(temp) \div 10) \o <<".">> \o NatStr(Abs(temp) % 10), 5)

\* FixLength without its test: the string returned as formatted
FixLength_unchecked(out) == out

\* if len(out) != 11: out = out[:11].ljust(11)
FixLength(out) == IF Len(out) # 11 THEN Ljust(Take(out, 11), 11) ELSE out

format_serial_string(temp, dt) ==
    FixLength((IF ~temp.ok THEN Repeat(" ", 5) ELSE Fmt51f(temp.v))
              \o <<"/", "/">>
              \o (IF ~dt.ok THEN <<"0", "0">> ELSE Fmt02d(dt.h))
              \o <<":", ":">>)

(***************************************************************************)
(* main and do_cycle                                                       *)
(***************************************************************************)
VARIABLES
    pc,           \* where main is: "start", "cycle", "write", "after", "sleep",
                  \* "finally", "exited" ("off" when only a function is run)
    once,         \* args.once
    ser,          \* the handle: "none" (None), "open", "closed"
    opens,        \* calls of open_serial that opened the port
    closes,       \* calls of ser.close()
    close_failed, \* ser.close() raised
    fetches,      \* calls of fetch_latest_for_station, one per do_cycle
    sleeps,       \* calls of time.sleep
    writes,       \* calls of ser.write
    wrote,        \* ser.write was called in the current cycle
    result,       \* what fetch_latest_for_station gave the current cycle
    serial_str,   \* serial_str of the current cycle
    sent,         \* the bytes of the last ser.write that did not raise
    exit,         \* why main left its try block: "", "return",
                  \* "KeyboardInterrupt", or the exception nothing caught
    hpc,          \* a function run alone: "call" before, "return" after
    args,         \* its arguments
    ret,          \* what it returned
    sorted        \* with_dt after the sort, of fetch_latest_for_station run alone

driver_vars == <<pc, once, ser, opens, closes, close_failed, fetches, sleeps, writes,
                 wrote, result, serial_str, sent, exit>>

call_vars == <<hpc, args, ret, sorted>>

vars == <<pc, once, ser, opens, closes, close_failed, fetches, sleeps, writes,
          wrote, result, serial_str, sent, exit, hpc, args, ret, sorted>>

\* Bounds of the model
MaxCycles == 3

Interval == 2

MaxElapsed == 3

MaxRecords == 3

MaxTemp == 1005

\* Strings of the inputs
Date1 == <<"2", "0", "2", "4", "-", "0", "5", "-", "0", "1">>

Date2 == <<"2", "0", "2", "4", "-", "0", "5", "-", "0", "2">>

Stamp2 == Date2 \o <<"T", "0", "7", ":", "0", "0", ":", "0", "0">>

StampAware == Date1 \o <<"T", "1", "2", ":", "0", "0", ":", "0", "0", "+", "0", "2", ":", "0", "0">>

CommaTemp == <<"1", "2", ",", "3">>

Letters == <<"a", "b", "c">>

\* A JSON object with these five fields and no other
Rec(date, hour, stamp, temp, alt) ==
    Dict([EmptyFields EXCEPT !["data_pomiaru"] = date, !["godzina_pomiaru"] = hour,
                             !["timestamp"] = stamp, !["temperatura"] = temp,
                             !["temp"] = alt])

\* The responses a cycle may get
Responses ==
    LET rA      == Rec(JStr(Date1), JInt(12), Absent, JStr(CommaTemp), Absent)
        rB      == Rec(JStr(Date2), JInt(7), Absent, JFloat(-54), Absent)
        rNoTemp == Rec(JStr(Date1), JInt(12), Absent, Absent, Absent)
        rNoTime == Rec(Absent, Absent, Absent, JInt(5), Absent)
        rBare   == Rec(Absent, Absent, Absent, JStr(Letters), Absent)
        rAware  == Rec(Absent, Absent, JStr(StampAware), JInt(1), Absent)
    IN  { [kind |-> "error", items |-> <<>>],
          [kind |-> "other", items |-> <<>>],
          [kind |-> "list", items |-> <<>>],
          [kind |-> "dict", items |-> <<rB>>],
          [kind |-> "list", items |-> <<rA, rB>>],
          [kind |-> "list", items |-> <<rNoTemp>>],
          [kind |-> "list", items |-> <<rNoTime>>],
          [kind |-> "list", items |-> <<rBare>>],
          [kind |-> "list", items |-> <<rAware, rA>>],
          [kind |-> "list", items |-> <<NonDict("int")>>],
          [kind |-> "list", items |-> <<NonDict("str")>>] }

NoResult == Result("none", NoFloat, NoDT, NoRec)

\* bytes of s.encode('ascii', errors='replace')
AsciiChars == {DigitChars[i] : i \in 1..10} \cup {" ", "-", ".", "/", ":"}

EncodeAscii(s) == [i \in 1..Len(s) |-> IF s[i] \in AsciiChars THEN s[i] ELSE "?"]

\* do_cycle that returns before the write when the record has no temperature
do_cycle_no_blank(res, handle) ==
    IF res.exc = "RequestException"
    THEN [next |-> "return", exc |-> "", serial_str |-> <<>>]
    ELSE IF res.exc # "none"
    THEN [next |-> "raise", exc |-> res.exc, serial_str |-> <<>>]
    ELSE IF res.rec = NoRec
    THEN [next |-> "return", exc |-> "", serial_str |-> <<>>]
    ELSE IF res.rec.kind # "dict"
    THEN [next |-> "raise", exc |-> "AttributeError", serial_str |-> <<>>]
    ELSE [next |-> IF handle = "open" /\ res.temp.ok THEN "write" ELSE "return",
          exc |-> "",
          serial_str |-> format_serial_string(res.temp, res.dt)]

\* do_cycle up to its write: how that part ends ("return", "raise" with the
\* exception nothing in do_cycle catches, or "write") and serial_str
do_cycle(res, handle) ==
    IF res.exc = "RequestException"
    THEN [next |-> "return", exc |-> "", serial_str |-> <<>>]
    ELSE IF res.exc # "none"
    THEN [next |-> "raise", exc |-> res.exc, serial_str |-> <<>>]
    ELSE IF res.rec = NoRec
    THEN [next |-> "return", exc |-> "", serial_str |-> <<>>]
    ELSE IF res.rec.kind # "dict"
    THEN [next |-> "raise", exc |-> "AttributeError", serial_str |-> <<>>]
    ELSE [next |-> IF handle = "open" THEN "write" ELSE "return",
          exc |-> "",
          serial_str |-> format_serial_string(res.temp, res.dt)]

DriverInit ==
    /\ pc = "start"
    /\ once \in BOOLEAN
    /\ ser = "none"
    /\ opens = 0 /\ closes = 0 /\ close_failed = FALSE
    /\ fetches = 0 /\ sleeps = 0 /\ writes = 0
    /\ wrote = FALSE
    /\ result = NoResult
    /\ serial_str = <<>>
    /\ sent = <<>>
    /\ exit = ""

DriverOff ==
    /\ pc = "off"
    /\ once = FALSE
    /\ ser = "none"
    /\ opens = 0 /\ closes = 0 /\ close_failed = FALSE
    /\ fetches = 0 /\ sleeps = 0 /\ writes = 0
    /\ wrote = FALSE
    /\ result = NoResult
    /\ serial_str = <<>>
    /\ sent = <<>>
    /\ exit = ""

CallOff ==
    /\ hpc = "off"
    /\ args = <<>>
    /\ ret = <<>>
    /\ sorted = <<>>

\* ser = open_serial(...), or the RuntimeError caught and ser = None
OpenSerial ==
    /\ pc = "start"
    /\ \E ok \in BOOLEAN :
        /\ ser' = IF ok THEN "open" ELSE "none"
        /\ opens' = IF ok THEN opens + 1 ELSE opens
    /\ pc' = "cycle"
    /\ UNCHANGED <<once, closes, close_failed, fetches, sleeps, writes, wrote, result,
                   serial_str, sent, exit>>
    /\ UNCHANGED call_vars

\* The state after that part of do_cycle, res the fetch and c how it ended
DoCycleEnds(res, c) ==
    /\ result' = res
    /\ serial_str' = c.serial_str
    /\ pc' = CASE c.next = "write" -> "write"
               [] c.next = "raise" -> "finally"
               [] OTHER            -> "after"
    /\ exit' = IF c.next = "raise" THEN c.exc ELSE exit

DoCycleWith(res) == DoCycleEnds(res, do_cycle(res, ser))

\* do_cycle() from its first line to the test of ser
DoCycle ==
    /\ pc = "cycle"
    /\ fetches < MaxCycles
    /\ \E r \in Responses : DoCycleWith(fetch_latest_for_station(r))
    /\ fetches' = fetches + 1
    /\ wrote' = FALSE
    /\ UNCHANGED <<once, ser, opens, closes, close_failed, sleeps, writes, sent>>
    /\ UNCHANGED call_vars

\* ser.write(serial_str.encode('ascii', errors='replace')), its exception caught
SerialWrite ==
    /\ pc = "write"
    /\ \E ok \in BOOLEAN :
        sent' = IF ok THEN EncodeAscii(serial_str) ELSE sent
    /\ writes' = writes + 1
    /\ wrote' = TRUE
    /\ pc' = "after"
    /\ UNCHANGED <<once, ser, opens, closes, close_failed, fetches, sleeps, result,
                   serial_str, exit>>
    /\ UNCHANGED call_vars

\* --once without its return: main falls into the tail of the loop
OnceReturn_falls_through ==
    /\ pc = "after"
    /\ once
    /\ pc' = "sleep"
    /\ sleeps' = sleeps + 1
    /\ UNCHANGED <<once, ser, opens, closes, close_failed, fetches, writes, wrote,
                   result, serial_str, sent, exit>>
    /\ UNCHANGED call_vars

\* if args.once: do_cycle(); return
OnceReturn ==
    /\ pc = "after"
    /\ once
    /\ pc' = "finally"
    /\ exit' = "return"
    /\ UNCHANGED <<once, ser, opens, closes, close_failed, fetches, sleeps, writes,
                   wrote, result, serial_str, sent>>
    /\ UNCHANGED call_vars

\* The end of a pass of the while loop: sleep_for = args.interval - elapsed
LoopTail ==
    /\ pc = "after"
    /\ ~once
    /\ \E elapsed \in 0..MaxElapsed :
        /\ pc' = IF Interval - elapsed > 0 THEN "sleep" ELSE "cycle"
        /\ sleeps' = IF Interval - elapsed > 0 THEN sleeps + 1 ELSE sleeps
    /\ UNCHANGED <<once, ser, opens, closes, close_failed, fetches, writes, wrote,
                   result, serial_str, sent, exit>>
    /\ UNCHANGED call_vars

\* time.sleep returns
WakeUp ==
    /\ pc = "sleep"
    /\ pc' = "cycle"
    /\ UNCHANGED <<once, ser, opens, closes, close_failed, fetches, sleeps, writes,
                   wrote, result, serial_str, sent, exit>>
    /\ UNCHANGED call_vars

\* Ctrl+C anywhere inside the try block: except KeyboardInterrupt
KeyboardInterrupt ==
    /\ pc \in {"start", "cycle", "write", "after", "sleep"}
    /\ pc' = "finally"
    /\ exit' = "KeyboardInterrupt"
    /\ UNCHANGED <<once, ser, opens, closes, close_failed, fetches, sleeps, writes,
                   wrote, result, serial_str, sent>>
    /\ UNCHANGED call_vars

\* The close placed in the except KeyboardInterrupt clause, not in finally
Finally_close_on_interrupt ==
    /\ pc = "finally"
    /\ IF ser = "open" /\ exit = "KeyboardInterrupt"
       THEN /\ closes' = closes + 1
            /\ \E raised \in BOOLEAN :
                /\ close_failed' = raised
                /\ ser' = IF raised THEN ser ELSE "closed"
       ELSE UNCHANGED <<closes, close_failed, ser>>
    /\ pc' = "exited"
    /\ UNCHANGED <<once, opens, fetches, sleeps, writes, wrote, result, serial_str,
                   sent, exit>>
    /\ UNCHANGED call_vars

\* finally: if ser: try ser.close() except Exception: pass
Finally ==
    /\ pc = "finally"
    /\ IF ser = "open"
       THEN /\ closes' = closes + 1
            /\ \E raised \in BOOLEAN :
                /\ close_failed' = raised
                /\ ser' = IF raised THEN ser ELSE "closed"
       ELSE UNCHANGED <<closes, close_failed, ser>>
    /\ pc' = "exited"
    /\ UNCHANGED <<once, opens, fetches, sleeps, writes, wrote, result, serial_str,
                   sent, exit>>
    /\ UNCHANGED call_vars

Init == DriverInit /\ CallOff

Next ==
    \/ OpenSerial
    \/ DoCycle
    \/ SerialWrite
    \/ OnceReturn
    \/ LoopTail
    \/ WakeUp
    \/ KeyboardInterrupt
    \/ Finally

Spec == Init /\ [][Next]_vars

(***************************************************************************)
(* The functions run alone, on every input of a bounded set                *)
(***************************************************************************)
\* fetch_latest_for_station on a body that is an array of objects
SelectRecords ==
    { Rec(date, JInt(12), stamp, temp, Absent) :
        date \in {Absent, JStr(Date1), JStr(Date2)},
        stamp \in {Absent, JStr(Stamp2)},
        temp \in {Absent, JStr(CommaTemp), JFloat(-54)} }

Payloads == UNION {[1..n -> SelectRecords] : n \in 0..MaxRecords}

InitSelect ==
    /\ DriverOff
    /\ hpc = "call"
    /\ args \in Payloads
    /\ ret = NoResult
    /\ sorted = <<>>

CallFetch ==
    /\ hpc = "call"
    /\ ret' = fetch_latest_for_station([kind |-> "list", items |-> args])
    /\ sorted' = SortWithDt(WithDt(args))
    /\ hpc' = "return"
    /\ UNCHANGED args
    /\ UNCHANGED driver_vars

NextSelect == CallFetch

SpecSelect == InitSelect /\ [][NextSelect]_vars

\* record_datetime
HourText == <<"1", "2", ":", "3", "0">>

DatetimeRecords ==
    { Dict([EmptyFields EXCEPT !["data_pomiaru"] = date, !["godzina_pomiaru"] = hour,
                               !["godzina"] = godzina, !["time"] = time,
                               !["timestamp"] = stamp]) :
        date \in {Absent, JStr(Date1), JStr(Letters)},
        hour \in {Absent, Null, JInt(0), JInt(7), JInt(12), JInt(23), JFloat(120),
                  JFloat(0), JStr(HourText)},
        godzina \in {Absent, JInt(5)},
        time \in {Absent, JStr(HourText)},
        stamp \in {Absent, JStr(Stamp2)} }

InitDatetime ==
    /\ DriverOff
    /\ hpc = "call"
    /\ args \in DatetimeRecords
    /\ ret = NoDT
    /\ sorted = <<>>

CallRecordDatetime ==
    /\ hpc = "call"
    /\ ret' = record_datetime(args).dt
    /\ hpc' = "return"
    /\ UNCHANGED <<args, sorted>>
    /\ UNCHANGED driver_vars

NextDatetime == CallRecordDatetime

SpecDatetime == InitDatetime /\ [][NextDatetime]_vars

\* extract_temp
TempValues ==
    {Absent, Null, JStr(<<>>), JStr(Letters), JStr(CommaTemp), JInt(5), JFloat(-54)}

TempRecords ==
    { Dict([EmptyFields EXCEPT !["temperatura"] = a, !["temp"] = b,
                               !["temperature"] = c, !["t"] = d]) :
        a \in TempValues, b \in TempValues, c \in TempValues, d \in TempValues }

InitTemp ==
    /\ DriverOff
    /\ hpc = "call"
    /\ args \in TempRecords
    /\ ret = NoFloat
    /\ sorted = <<>>

CallExtractTemp ==
    /\ hpc = "call"
    /\ ret' = extract_temp(args)
    /\ hpc' = "return"
    /\ UNCHANGED <<args, sorted>>
    /\ UNCHANGED driver_vars

NextTemp == CallExtractTemp

SpecTemp == InitTemp /\ [][NextTemp]_vars

\* format_serial_string: every temperature to MaxTemp tenths either side of
\* zero, some far wider than the field, and every hour
WideTemps == {-123456, 99999, 1234567}

FormatInputs ==
    [temp : {NoFloat} \cup {SomeFloat(v) : v \in (-MaxTemp..MaxTemp) \cup WideTemps},
     dt   : {NoDT} \cup {DT(2024, 5, 1, h, 0, 0) : h \in 0..23}]

InitFormat ==
    /\ DriverOff
    /\ hpc = "call"
    /\ args \in FormatInputs
    /\ ret = <<>>
    /\ sorted = <<>>

CallFormat ==
    /\ hpc = "call"
    /\ ret' = format_serial_string(args.temp, args.dt)
    /\ hpc' = "return"
    /\ UNCHANGED <<args, sorted>>
    /\ UNCHANGED driver_vars

NextFormat == CallFormat

SpecFormat == InitFormat /\ [][NextFormat]_vars

(***************************************************************************)
(* Claims                                                                  *)
(***************************************************************************)
\* Two entries of with_dt have equal sort keys
SameKey(a, b) ==
    IF a.d.ok # b.d.ok THEN FALSE
    ELSE IF ~a.d.ok THEN TRUE
    ELSE ~DTLt(a.d, b.d) /\ ~DTLt(b.d, a.d)

\* C1: after the sort of fetch_latest_for_station every record without a
\* timestamp stands after every record with one, the records with a timestamp
\* stand latest first, and records with equal keys keep their input order.
C1_MissingTimestampsLast ==
    hpc = "return" =>
        \A i, j \in 1..Len(sorted) :
            i < j =>
                /\ ~sorted[i].d.ok => ~sorted[j].d.ok
                /\ sorted[i].d.ok /\ sorted[j].d.ok => ~DTLt(sorted[i].d, sorted[j].d)
                /\ SameKey(sorted[i], sorted[j]) => sorted[i].pos < sorted[j].pos

\* Record i of the payload has a temperature and a timestamp later than the
\* timestamp of every other record
StrictlyLatest(payload, i) ==
    /\ record_datetime(payload[i]).dt.ok
    /\ extract_temp(payload[i]).ok
    /\ \A j \in 1..Len(payload) :
        j # i /\ record_datetime(payload[j]).dt.ok =>
            DTLt(record_datetime(payload[j]).dt, record_datetime(payload[i]).dt)

\* C2: when one record of the payload has a timestamp strictly later than
\* every other record's timestamp and a temperature, fetch_latest_for_station
\* returns the temperature and the timestamp of that record.
C2_LatestRecordReturned ==
    hpc = "return" =>
        \A i \in 1..Len(args) :
            StrictlyLatest(args, i) =>
                /\ ret.temp = extract_temp(args[i])
                /\ ret.dt = record_datetime(args[i]).dt

\* C3: format_serial_string returns exactly 11 characters for every
\* temperature, absent, negative or too wide for its field, and every
\* timestamp, absent or of any hour.
C3_ElevenCharacters == hpc = "return" => Len(ret) = 11

\* A temperature of six characters with a timestamp, cut to 11 characters
C3_Witness ==
    /\ hpc = "return"
    /\ args.temp.ok /\ args.temp.v <= -1000
    /\ args.dt.ok /\ args.dt.h = 23
    /\ Len(ret) = 11

\* C4: format_serial_string(-5.4, hour 7) is "-05.4//07::".
C4_NegativeZeroPadded ==
    (hpc = "return" /\ args.temp = SomeFloat(-54) /\ args.dt.ok /\ args.dt.h = 7) =>
        ret = <<"-", "0", "5", ".", "4", "/", "/", "0", "7", ":", ":">>

\* C5: in continuous mode main leaves its loop only on an interrupt signal;
\* no failure of a cycle ends the process.
C5_LoopEndsOnlyOnInterrupt ==
    (~once /\ pc \in {"finally", "exited"}) => exit = "KeyboardInterrupt"

C7_PortClosedOnExit ==
    /\ opens <= 1
    /\ closes <= opens
    /\ (pc = "exited" /\ opens = 1) => closes = 1
    /\ pc = "exited" => exit \in {"return", "KeyboardInterrupt", "TypeError", "AttributeError"}

\* An interrupt after a cycle, and a close that raised
C7_Witness ==
    /\ pc = "exited" /\ exit = "KeyboardInterrupt"
    /\ fetches >= 1 /\ opens = 1 /\ closes = 1 /\ close_failed

\* C8: with --once main runs one cycle, so one fetch, and never sleeps,
\* whether the cycle succeeded or ended in a handled failure.
C8_SingleShot ==
    once =>
        /\ sleeps = 0
        /\ fetches <= 1
        /\ pc # "sleep"
        /\ exit = "return" => fetches = 1

\* A single cycle that ended in a transport failure, and main has returned
C8_Witness ==
    /\ once /\ pc = "exited" /\ exit = "return"
    /\ result.exc = "RequestException"
    /\ fetches = 1 /\ sleeps = 0

\* godzina_pomiaru is a number that is an hour of the day
NumericHour(v) ==
    \/ v.t = "int" /\ v.n \in 0..23
    \/ v.t = "float" /\ v.n % 10 = 0 /\ (v.n \div 10) \in 0..23

\* C9: for a record whose data_pomiaru is a valid YYYY-MM-DD date D and whose
\* godzina_pomiaru is a numeric hour h of 0..23, record_datetime gives
\* D h:00:00, whatever other fields the record holds.
C9_DateAndHourResolved ==
    (/\ hpc = "return"
     /\ args.f["data_pomiaru"].t = "str"
     /\ strptime(args.f["data_pomiaru"].s, fmts[5]).ok
     /\ NumericHour(args.f["godzina_pomiaru"])) =>
        ret = [strptime(args.f["data_pomiaru"].s, fmts[5])
                  EXCEPT !.h = PyInt(args.f["godzina_pomiaru"])]

\* The candidates of rec, by index, whose value is present and coercible
Coercible(rec) ==
    {i \in 1..Len(candidates) :
        /\ rec.f[candidates[i]].t \notin {"absent", "null"}
        /\ rec.f[candidates[i]] # JStr(<<>>)
        /\ Coerce(rec.f[candidates[i]]).ok}

\* C10: extract_temp returns the number of the first candidate, in the order
\* temperatura, temp, temperature, t, whose value is present, non-null,
\* non-empty and coercible, and nothing only when there is none; "12,3" gives
\* 12.3, and "abc" is passed over for the next candidate.
C10_FirstCoercibleCandidate ==
    hpc = "return" =>
        /\ ret.ok <=> Coercible(args) # {}
        /\ \A i \in Coercible(args) :
            (\A j \in Coercible(args) : i <= j) => ret = Coerce(args.f[candidates[i]])
        /\ args.f["temperatura"] = JStr(CommaTemp) => ret = SomeFloat(123)
        /\ (args.f["temperatura"] = JStr(Letters) /\ args.f["temp"] = JInt(5)) =>
            ret = SomeFloat(50)

\* "abc" in temperatura passed over, "12,3" in temp returned
C10_Witness ==
    /\ hpc = "return"
    /\ args.f["temperatura"] = JStr(Letters)
    /\ args.f["temp"] = JStr(CommaTemp)
    /\ ret = SomeFloat(123)

====
